---- MODULE Spec2Model ----
(***************************************************************************)
(* Model of the review pipeline of hw3: the paginated crawls of            *)
(* scrape_reviews.py and scrape_data.py, the per-page content filter, the  *)
(* date resolution (app.py, scrape_reviews.py), the sentiment step and the *)
(* month aggregation of app.py.                                            *)
(*                                                                         *)
(* Texts are sequences of one-character strings, so that len(), lower(),   *)
(* split()/join() and the substring test `w in t` are computed, not        *)
(* assumed.                                                                *)
(***************************************************************************)
EXTENDS Integers, Sequences, FiniteSets, TLC

VARIABLES
    prog,       \* which entry point runs
    pc,         \* position of the running entry point
    maxPages,   \* max_pages argument of the running crawl
    page,       \* loop variable `page` (0 before the first iteration)
    rows,       \* local list `rows` of the running crawl
    hist,       \* per fetched page: what the iteration saw and kept
    evals,      \* selector calls of the last parsed page, in call order
    resource,   \* scrape_data.__main__: which crawl is running
    files,      \* data/*.csv as written by save_csv ("absent" = not written)
    cands,      \* content filter: texts handed to the filter
    clean,      \* content filter: its output
    clean2,     \* content filter: output of a second pass over `clean`
    dates,      \* date resolution: the `date` column going in
    resolved,   \* date resolution: the `date` column coming out
    batch,      \* sentiment: texts handed to the classifier
    labelled,   \* sentiment: rows coming out (with the strategy that labelled)
    reviews_df, \* aggregation: the rows of reviews.csv, each with what the model predicts for its text
    selected,   \* aggregation: selected_month
    metrics     \* aggregation: what the Reviews section computes

crawlVars == <<maxPages, page, rows, hist, evals, resource, files>>
filterVars == <<cands, clean, clean2>>
dateVars == <<dates, resolved>>
sentVars == <<batch, labelled>>
aggVars == <<reviews_df, selected, metrics>>
vars == <<prog, pc, crawlVars, filterVars, dateVars, sentVars, aggVars>>

(***************************************************************************)
(* Bounds of the model.                                                    *)
(***************************************************************************)
MaxPages == 2
MaxCands == 2
MaxRows == 3
MaxWords == 3
MaxBatch == 2

(***************************************************************************)
(* Generic helpers.                                                        *)
(***************************************************************************)
SeqsUpTo(S, n) == UNION {[1..k -> S] : k \in 0..n}

RECURSIVE Rep(_, _)
Rep(c, n) == IF n = 0 THEN <<>> ELSE <<c>> \o Rep(c, n - 1)

(***************************************************************************)
(* Python string operations on character sequences.                        *)
(***************************************************************************)
Whitespace == {" ", "\n"}

UpperToLower ==
    [c \in {"B", "D", "G", "S", "W"} |->
        CASE c = "B" -> "b" [] c = "D" -> "d" [] c = "G" -> "g"
          [] c = "S" -> "s" [] c = "W" -> "w"]

\* str.lower()
Lower(t) ==
    [i \in 1..Len(t) |-> IF t[i] \in DOMAIN UpperToLower THEN UpperToLower[t[i]] ELSE t[i]]

\* `w in t` for strings
Contains(t, w) ==
    \E i \in 1..(Len(t) - Len(w) + 1) : SubSeq(t, i, i + Len(w) - 1) = w

\* str.split(): the maximal runs of non-whitespace characters
RECURSIVE SplitFrom(_, _, _)
SplitFrom(t, i, cur) ==
    IF i > Len(t) THEN (IF cur = <<>> THEN <<>> ELSE <<cur>>)
    ELSE IF t[i] \in Whitespace
         THEN (IF cur = <<>> THEN <<>> ELSE <<cur>>) \o SplitFrom(t, i + 1, <<>>)
         ELSE SplitFrom(t, i + 1, Append(cur, t[i]))

Split(t) == SplitFrom(t, 1, <<>>)

\* sep.join(parts)
RECURSIVE Join(_, _)
Join(parts, sep) ==
    IF parts = <<>> THEN <<>>
    ELSE IF Len(parts) = 1 THEN parts[1]
    ELSE parts[1] \o sep \o Join(Tail(parts), sep)

\* str.strip()
RECURSIVE LStrip(_)
LStrip(t) == IF t # <<>> /\ Head(t) \in Whitespace THEN LStrip(Tail(t)) ELSE t

RECURSIVE RStrip(_)
RStrip(t) ==
    IF t # <<>> /\ t[Len(t)] \in Whitespace THEN RStrip(SubSeq(t, 1, Len(t) - 1)) ELSE t

Strip(t) == RStrip(LStrip(t))

\* Tag.get_text(" ", strip=True) of an element given as its text nodes:
\* every node stripped, empty ones dropped, the rest joined by one space.
RECURSIVE StrippedNodes(_)
StrippedNodes(nodes) ==
    IF nodes = <<>> THEN <<>>
    ELSE (IF Strip(Head(nodes)) = <<>> THEN <<>> ELSE <<Strip(Head(nodes))>>)
         \o StrippedNodes(Tail(nodes))

GetText(nodes) == Join(StrippedNodes(nodes), <<" ">>)

(***************************************************************************)
(* scrape_reviews.py: the per-page content filter of scrape_reviews.       *)
(* An element is the sequence of its text nodes.                           *)
(***************************************************************************)
MinLenReview == 25

Marker == <<"w","e","b","-","s","c","r","a","p","i","n","g",".","d","e","v">>

\* the test of line 59 on txt = c.get_text(" ", strip=True)
ReviewLike(txt) ==
    /\ txt # <<>>
    /\ Len(txt) >= MinLenReview
    /\ ~Contains(Lower(txt), Marker)

\* lines 55-60: page_texts
RECURSIVE PageTexts(_)
PageTexts(cs) ==
    IF cs = <<>> THEN <<>>
    ELSE (IF ReviewLike(GetText(Head(cs))) THEN <<GetText(Head(cs))>> ELSE <<>>)
         \o PageTexts(Tail(cs))

\* line 66: t2 = " ".join(t.split())
Normalize(t) == Join(Split(t), <<" ">>)

\* lines 63-69: seen / clean
RECURSIVE Dedup(_, _)
Dedup(ts, seen) ==
    IF ts = <<>> THEN <<>>
    ELSE IF Normalize(Head(ts)) \in seen THEN Dedup(Tail(ts), seen)
    ELSE <<Normalize(Head(ts))>> \o Dedup(Tail(ts), seen \cup {Normalize(Head(ts))})

\* lines 55-69 as one function of the candidates of a page
ReviewFilter(cs) == Dedup(PageTexts(cs), {})

\* a text handed back as a candidate: an element with that one text node
AsElements(ts) == [i \in 1..Len(ts) |-> <<ts[i]>>]

Range(s) == {s[i] : i \in 1..Len(s)}

(***************************************************************************)
(* Specification SpecFilter: the content filter on the candidates of one   *)
(* page, then on its own output.                                           *)
(***************************************************************************)
TwoWords(n, g, m) == Rep("a", n) \o Rep(" ", g) \o Rep("b", m)

FilterElems ==
    {<<TwoWords(n, g, m)>> : n \in {3, 11, 12}, g \in {1, 2}, m \in {3, 11, 12}}
    \cup {<<Rep("a", 12) \o <<" ", "W", "e", "b", "-", "S", "c", "r", "a", "p", "i",
                              "n", "g", ".", "D", "e", "v">>>>,
          <<<<" ", "a", "a", "a", "\n">>, Rep("b", 21)>>}

CrawlIdle ==
    /\ maxPages = 0 /\ page = 0 /\ rows = <<>> /\ hist = <<>> /\ evals = <<>>
    /\ resource = "none" /\ files = <<>>

FilterIdle == cands = <<>> /\ clean = <<>> /\ clean2 = <<>>

DateIdle == dates = <<>> /\ resolved = [date |-> <<>>, used_placeholder |-> FALSE]

SentIdle == batch = <<>> /\ labelled = [rows |-> <<>>, failure |-> "none"]

AggIdle == reviews_df = <<>> /\ selected = <<>> /\ metrics = [count |-> 0, pos |-> 0, neg |-> 0, conf_sum |-> 0]

InitFilter ==
    /\ pc = "filter"
    /\ prog = "scrape_reviews"
    /\ cands \in SeqsUpTo(FilterElems, MaxCands)
    /\ clean = <<>> /\ clean2 = <<>>
    /\ CrawlIdle /\ DateIdle /\ SentIdle /\ AggIdle

ApplyFilter ==
    /\ pc = "filter"
    /\ clean' = ReviewFilter(cands)
    /\ pc' = "refilter"
    /\ UNCHANGED <<prog, crawlVars, cands, clean2, dateVars, sentVars, aggVars>>

ReapplyFilter ==
    /\ pc = "refilter"
    /\ clean2' = ReviewFilter(AsElements(clean))
    /\ pc' = "filtered"
    /\ UNCHANGED <<prog, crawlVars, cands, clean, dateVars, sentVars, aggVars>>

NextFilter == ApplyFilter \/ ReapplyFilter

SpecFilter == InitFilter /\ [][NextFilter]_vars

\* C7: the per-page content filter is idempotent: filtering its own output
\* gives the same set of texts.
C7_FilterIdempotent == pc = "filtered" => Range(clean2) = Range(clean)

(***************************************************************************)
(* The paginated crawls.  A fetched page is given by what the selectors    *)
(* of the crawl match in it: `strict` is the result of the first selector  *)
(* of the cascade, `loose` of the second.  An element is a record of its   *)
(* text nodes, its first <time> descendant (a sequence of length 0 or 1)   *)
(* and its first <div> descendant (likewise).                              *)
(***************************************************************************)
MinLenBlock == 30
MinLenTestimonial == 10
ProductPages == 5
TestimonialPages == 5
ReviewPages == 12

\* outcome of the GET of one page: a 200 with a body, another status, a 200
\* with a blank body, or an exception of requests (transport error, timeout)
FetchKinds == {"ok", "status", "blank", "raise"}

EmptyDoc == [strict |-> <<>>, loose |-> <<>>]

Min(a, b) == IF a < b THEN a ELSE b

\* a cascade that goes on to the weaker selector whatever the first one found
ReviewsCascadeTriesAll(doc) ==
    <<[selector |-> 1, result |-> doc.strict], [selector |-> 2, result |-> doc.loose]>>

\* scrape_reviews, lines 50-53: the selector calls made on a page, in order
ReviewsCascade(doc) ==
    IF doc.strict # <<>>
    THEN <<[selector |-> 1, result |-> doc.strict]>>
    ELSE <<[selector |-> 1, result |-> doc.strict],
           [selector |-> 2, result |-> doc.loose]>>

\* scrape_reviews_pages, lines 104-114: soup.select("time") and its parents,
\* else the fallback selector
BlocksCascade(doc) ==
    IF doc.strict # <<>>
    THEN <<[selector |-> 1, result |-> doc.strict]>>
    ELSE <<[selector |-> 1, result |-> doc.strict],
           [selector |-> 2, result |-> doc.loose]>>

\* the candidates the rest of the iteration works on
Candidates(calls) == calls[Len(calls)].result

NodesOf(es) == [i \in 1..Len(es) |-> es[i].nodes]

\* a loop that never takes the break of line 72
PageIsEmptyIgnored(cl) == FALSE

\* scrape_reviews, line 72: `if not clean: break`
PageIsEmpty(cl) == cl = <<>>

\* scrape_reviews, lines 75-76
ReviewRows(cl, p) == [i \in 1..Len(cl) |-> [text |-> cl[i], page |-> p]]

\* scrape_reviews_pages, lines 122-125: date_str of a block
DateStr(b) ==
    IF b.time = <<>> THEN <<>>
    ELSE IF b.time[1].has_attr THEN b.time[1].datetime
    ELSE Strip(b.time[1].text)

\* scrape_reviews_pages, lines 116-128: the rows a page adds
RECURSIVE BlockRows(_, _)
BlockRows(bs, p) ==
    IF bs = <<>> THEN <<>>
    ELSE (IF GetText(Head(bs).nodes) = <<>> \/ Len(GetText(Head(bs).nodes)) < MinLenBlock
          THEN <<>>
          ELSE <<[date |-> DateStr(Head(bs)), text |-> GetText(Head(bs).nodes), page |-> p]>>)
         \o BlockRows(Tail(bs), p)

\* scrape_reviews_pages, line 131: `if added == 0: break`
NothingAdded(added) == added = 0

\* scrape_products, lines 44-47 (get_text(strip=True) joins with "")
RECURSIVE TitleRows(_, _)
TitleRows(hs, p) ==
    IF hs = <<>> THEN <<>>
    ELSE (IF Join(StrippedNodes(Head(hs).nodes), <<>>) = <<>> THEN <<>>
          ELSE <<[title |-> Join(StrippedNodes(Head(hs).nodes), <<>>), page |-> p]>>)
         \o TitleRows(Tail(hs), p)

\* scrape_testimonials, lines 75-79
CardText(c) == IF c.inner # <<>> THEN GetText(c.inner[1]) ELSE GetText(c.nodes)

RECURSIVE CardRows(_, _)
CardRows(cs, p) ==
    IF cs = <<>> THEN <<>>
    ELSE (IF CardText(Head(cs)) # <<>> /\ Len(CardText(Head(cs))) >= MinLenTestimonial
          THEN <<[text |-> CardText(Head(cs)), page |-> p]>>
          ELSE <<>>)
         \o CardRows(Tail(cs), p)

\* sample elements
LongA == Rep("a", 15) \o <<" ">> \o Rep("b", 15)
GapA == Rep("a", 15) \o <<" ", " ">> \o Rep("b", 15)
ShortA == <<"a", "a", "a">>
Date20230514 == <<"2", "0", "2", "3", "-", "0", "5", "-", "1", "4">>
Date20221107 == <<"2", "0", "2", "2", "-", "1", "1", "-", "0", "7">>
NotADate == <<" ", "n", "/", "a", " ">>

TimeAttr(d) == <<[has_attr |-> TRUE, datetime |-> d, text |-> <<>>]>>
TimeText(t) == <<[has_attr |-> FALSE, datetime |-> <<>>, text |-> t]>>

\* elements without a <time> descendant
PlainElems == {[nodes |-> <<t>>, time |-> <<>>, inner |-> <<>>] : t \in {LongA, GapA, ShortA}}

\* parents of a <time> tag
TimedElems ==
    {[nodes |-> <<LongA>>, time |-> TimeAttr(Date20230514), inner |-> <<>>],
     [nodes |-> <<GapA>>, time |-> TimeText(NotADate), inner |-> <<>>],
     [nodes |-> <<ShortA>>, time |-> TimeAttr(Date20221107), inner |-> <<>>]}

\* <h3> elements: a title, a blank one
TitleElems == {[nodes |-> <<t>>, time |-> <<>>, inner |-> <<>>] : t \in {ShortA, <<" ">>}}

\* .testimonial cards: with and without an inner <div>
CardElems ==
    {[nodes |-> <<LongA>>, time |-> <<>>, inner |-> <<>>],
     [nodes |-> <<LongA>>, time |-> <<>>, inner |-> <<<<ShortA>>>>]}

\* The parsed review pages a crawl may meet: any first-selector result; where
\* it is empty any second-selector result, where it is not, a second selector
\* that would match nothing or one keepable element.
ReviewDocs(S) ==
    {[strict |-> s, loose |-> l] :
        s \in SeqsUpTo(S, MaxCands) \ {<<>>},
        l \in {<<>>, <<[nodes |-> <<LongA>>, time |-> <<>>, inner |-> <<>>]>>}}
    \cup {[strict |-> <<>>, loose |-> l] : l \in SeqsUpTo(PlainElems, MaxCands)}

Docs(fn) ==
    CASE fn = "scrape_reviews" -> ReviewDocs(PlainElems)
      [] fn = "scrape_reviews_pages" -> ReviewDocs(TimedElems)
      [] fn = "scrape_products" ->
           [strict : SeqsUpTo(TitleElems, MaxCands), loose : {<<>>}]
      [] fn = "scrape_testimonials" ->
           [strict : SeqsUpTo(CardElems, MaxCands), loose : {<<>>}]

\* lines 50-69 of scrape_reviews.py on each of these pages
ReviewsPageOf ==
    [d \in Docs("scrape_reviews") \cup {EmptyDoc} |->
        [calls |-> ReviewsCascade(d),
         clean |-> ReviewFilter(NodesOf(Candidates(ReviewsCascade(d))))]]

\* lines 104-128 of scrape_data.py on each of these pages, as page 0
BlocksPageOf ==
    [d \in Docs("scrape_reviews_pages") \cup {EmptyDoc} |->
        [calls |-> BlocksCascade(d),
         new |-> BlockRows(Candidates(BlocksCascade(d)), 0)]]

OnPage(rs, p) == [i \in 1..Len(rs) |-> [rs[i] EXCEPT !.page = p]]

OutFile(fn) ==
    CASE fn = "scrape_products" -> "products.csv"
      [] fn = "scrape_testimonials" -> "testimonials.csv"
      [] fn = "scrape_reviews_pages" -> "reviews.csv"

NoFiles ==
    [f \in {"products.csv", "testimonials.csv", "reviews.csv"} |->
        [written |-> FALSE, rows |-> <<>>]]

Seen(failed, ncand, nkept) == [failed |-> failed, ncand |-> ncand, nkept |-> nkept]

\* scrape_reviews.py, lines 40-76: one iteration of the loop of scrape_reviews.
\* _safe_get raises on a transport error and, through raise_for_status, on an
\* error status; both are caught and break.
ReviewsIteration ==
    /\ resource = "scrape_reviews" /\ pc = "loop" /\ page < maxPages
    /\ \E kind \in FetchKinds, doc \in Docs("scrape_reviews") :
         LET p == page + 1
             d == IF kind = "ok" THEN doc ELSE EmptyDoc
             calls == ReviewsPageOf[d].calls
             cl == ReviewsPageOf[d].clean
         IN /\ kind # "ok" => doc = EmptyDoc
            /\ page' = p
            /\ IF kind \in {"raise", "status"}
               THEN /\ evals' = <<>>
                    /\ hist' = Append(hist, Seen(TRUE, 0, 0))
                    /\ rows' = rows
                    /\ pc' = "break"
               ELSE /\ evals' = calls
                    /\ hist' = Append(hist, Seen(FALSE, Len(Candidates(calls)), Len(cl)))
                    /\ IF PageIsEmpty(cl)
                       THEN rows' = rows /\ pc' = "break"
                       ELSE rows' = rows \o ReviewRows(cl, p) /\ pc' = "loop"
    /\ UNCHANGED <<prog, maxPages, resource, files, filterVars, dateVars, sentVars, aggVars>>

\* scrape_reviews.py, line 78: return rows
ReviewsReturn ==
    /\ resource = "scrape_reviews"
    /\ pc = "break" \/ (pc = "loop" /\ page = maxPages)
    /\ pc' = "done"
    /\ UNCHANGED <<prog, crawlVars, filterVars, dateVars, sentVars, aggVars>>

\* An exception of requests.get is caught nowhere in scrape_data.py: it ends
\* the process, and nothing of the running crawl is written.
Crash ==
    /\ pc' = "crashed"
    /\ evals' = <<>>
    /\ UNCHANGED <<rows, files>>

\* scrape_data.py, lines 95-134: one iteration of scrape_reviews_pages
ReviewsPagesIteration ==
    /\ resource = "scrape_reviews_pages" /\ pc = "loop" /\ page < maxPages
    /\ \E kind \in FetchKinds, doc \in Docs("scrape_reviews_pages") :
         LET p == page + 1
             calls == BlocksPageOf[doc].calls
             new == OnPage(BlocksPageOf[doc].new, p)
         IN /\ kind # "ok" => doc = EmptyDoc
            /\ page' = p
            /\ IF kind = "raise"
               THEN hist' = Append(hist, Seen(TRUE, 0, 0)) /\ Crash
               ELSE IF kind \in {"status", "blank"}
               THEN /\ evals' = <<>>
                    /\ hist' = Append(hist, Seen(TRUE, 0, 0))
                    /\ rows' = rows
                    /\ pc' = "break"
                    /\ files' = files
               ELSE /\ evals' = calls
                    /\ hist' = Append(hist, Seen(FALSE, Len(Candidates(calls)), Len(new)))
                    /\ rows' = rows \o new
                    /\ pc' = IF NothingAdded(Len(new)) THEN "break" ELSE "loop"
                    /\ files' = files
    /\ UNCHANGED <<prog, maxPages, resource, filterVars, dateVars, sentVars, aggVars>>

\* scrape_data.py, lines 32-49: one iteration of scrape_products
ProductsIteration ==
    /\ resource = "scrape_products" /\ pc = "loop" /\ page < maxPages
    /\ \E kind \in FetchKinds, doc \in Docs("scrape_products") :
         LET p == page + 1
             new == TitleRows(doc.strict, p)
         IN /\ kind # "ok" => doc = EmptyDoc
            /\ page' = p
            /\ IF kind = "raise"
               THEN hist' = Append(hist, Seen(TRUE, 0, 0)) /\ Crash
               ELSE IF kind \in {"status", "blank"}
               THEN /\ evals' = <<>>
                    /\ hist' = Append(hist, Seen(TRUE, 0, 0))
                    /\ rows' = rows
                    /\ pc' = "break"
                    /\ files' = files
               ELSE /\ evals' = <<[selector |-> 1, result |-> doc.strict]>>
                    /\ hist' = Append(hist, Seen(FALSE, Len(doc.strict), Len(new)))
                    /\ rows' = rows \o new
                    /\ pc' = IF doc.strict = <<>> THEN "break" ELSE "loop"
                    /\ files' = files
    /\ UNCHANGED <<prog, maxPages, resource, filterVars, dateVars, sentVars, aggVars>>

\* scrape_data.py, lines 63-81: one iteration of scrape_testimonials
TestimonialsIteration ==
    /\ resource = "scrape_testimonials" /\ pc = "loop" /\ page < maxPages
    /\ \E kind \in FetchKinds, doc \in Docs("scrape_testimonials") :
         LET p == page + 1
             new == CardRows(doc.strict, p)
         IN /\ kind # "ok" => doc = EmptyDoc
            /\ page' = p
            /\ IF kind = "raise"
               THEN hist' = Append(hist, Seen(TRUE, 0, 0)) /\ Crash
               ELSE IF kind \in {"status", "blank"}
               THEN /\ evals' = <<>>
                    /\ hist' = Append(hist, Seen(TRUE, 0, 0))
                    /\ rows' = rows
                    /\ pc' = "break"
                    /\ files' = files
               ELSE /\ evals' = <<[selector |-> 1, result |-> doc.strict]>>
                    /\ hist' = Append(hist, Seen(FALSE, Len(doc.strict), Len(new)))
                    /\ rows' = rows \o new
                    /\ pc' = IF doc.strict = <<>> THEN "break" ELSE "loop"
                    /\ files' = files
    /\ UNCHANGED <<prog, maxPages, resource, filterVars, dateVars, sentVars, aggVars>>

\* the crawl __main__ starts after `fn`, with its max_pages (capped by MaxPages)
NextCrawl(fn) ==
    CASE fn = "scrape_products" -> [fn |-> "scrape_testimonials", n |-> Min(TestimonialPages, MaxPages)]
      [] fn = "scrape_testimonials" -> [fn |-> "scrape_reviews_pages", n |-> Min(ReviewPages, MaxPages)]

\* scrape_data.py, lines 51-53, 83-85, 136-138: save_csv after the loop; under
\* __main__ (lines 142-144) the next crawl then starts
SaveCsv ==
    /\ resource \in {"scrape_products", "scrape_testimonials", "scrape_reviews_pages"}
    /\ pc = "break" \/ (pc = "loop" /\ page = maxPages)
    /\ files' = [files EXCEPT ![OutFile(resource)] = [written |-> TRUE, rows |-> rows]]
    /\ IF prog = "scrape_data" /\ resource # "scrape_reviews_pages"
       THEN /\ resource' = NextCrawl(resource).fn
            /\ maxPages' = NextCrawl(resource).n
            /\ page' = 0 /\ rows' = <<>> /\ hist' = <<>> /\ evals' = <<>>
            /\ pc' = "loop"
       ELSE /\ pc' = "done"
            /\ UNCHANGED <<resource, maxPages, page, rows, hist, evals>>
    /\ UNCHANGED <<prog, filterVars, dateVars, sentVars, aggVars>>

(***************************************************************************)
(* Specification SpecCrawl: one call of scrape_reviews(max_pages) or of    *)
(* scrape_reviews_pages(max_pages), for any max_pages up to MaxPages.      *)
(***************************************************************************)
InitCrawl ==
    /\ prog \in {"scrape_reviews", "scrape_reviews_pages"}
    /\ resource = prog
    /\ pc = "loop"
    /\ maxPages \in 0..MaxPages
    /\ page = 0 /\ rows = <<>> /\ hist = <<>> /\ evals = <<>>
    /\ files = NoFiles
    /\ FilterIdle /\ DateIdle /\ SentIdle /\ AggIdle

NextCrawlStep == ReviewsIteration \/ ReviewsReturn \/ ReviewsPagesIteration \/ SaveCsv

SpecCrawl == InitCrawl /\ [][NextCrawlStep]_vars

(***************************************************************************)
(* Specification SpecRun: scrape_data.py run as a script.                  *)
(***************************************************************************)
InitRun ==
    /\ prog = "scrape_data"
    /\ resource = "scrape_products"
    /\ pc = "loop"
    /\ maxPages = Min(ProductPages, MaxPages)
    /\ page = 0 /\ rows = <<>> /\ hist = <<>> /\ evals = <<>>
    /\ files = NoFiles
    /\ FilterIdle /\ DateIdle /\ SentIdle /\ AggIdle

NextRun == ProductsIteration \/ TestimonialsIteration \/ ReviewsPagesIteration \/ SaveCsv

SpecRun == InitRun /\ [][NextRun]_vars

(***************************************************************************)
(* Properties of the crawls.                                               *)
(***************************************************************************)
LastSeen == hist[Len(hist)]

RowsOfPage(p) == SelectSeq(rows, LAMBDA r : r.page = p)

\* a page ends the crawl: its fetch failed or the iteration kept nothing of it
EndsCrawl(h) == h.failed \/ h.nkept = 0

\* a page ends the crawl, as claimed: its fetch failed or the cascade found
\* no candidate
EndsCrawlAsClaimed(h) == h.failed \/ h.ncand = 0

Broke == pc = "break" \/ (pc = "done" /\ page < maxPages)

StoppedEarly == pc \in {"break", "done"} /\ page < maxPages

\* C1 (as stated): a review crawl stops only at a page whose fetch fails or
\* whose selector cascade yields zero candidates, never at a fetched page
\* whose cascade yielded at least one candidate.
C1_StopsOnlyWithoutCandidates == StoppedEarly => EndsCrawlAsClaimed(LastSeen)

\* C1 (amended): a review crawl fetches pages 1, 2, ... in order and stops
\* exactly at the first page whose fetch fails or of which the iteration keeps
\* no record (which includes a cascade without candidates); no later page is
\* fetched, every earlier page's kept records are in rows in page order, and
\* scrape_reviews_pages writes them unless the fetch raised, which ends the
\* process with nothing written.
C1_StopsAtFirstPageKeepingNothing ==
    /\ Len(hist) = page /\ page <= maxPages
    /\ \A i \in 1..(Len(hist) - 1) : ~EndsCrawl(hist[i])
    /\ (pc = "loop" /\ hist # <<>>) => ~EndsCrawl(LastSeen)
    /\ Broke => EndsCrawl(LastSeen)
    /\ pc = "crashed" => LastSeen.failed /\ resource = "scrape_reviews_pages"
    /\ \A i \in 1..Len(hist) : Len(RowsOfPage(i)) = hist[i].nkept
    /\ \A i \in 1..(Len(rows) - 1) : rows[i].page <= rows[i + 1].page
    /\ \A i \in 1..Len(rows) : rows[i].page \in 1..page
    /\ (pc = "done" /\ resource = "scrape_reviews_pages")
          => files["reviews.csv"] = [written |-> TRUE, rows |-> rows]
    /\ pc = "crashed" => ~files["reviews.csv"].written

\* a crawl stopped at its second page, whose cascade had candidates that the
\* filter all dropped, with the first page's records kept
C1_Witness ==
    /\ pc = "done" /\ page = 2
    /\ ~LastSeen.failed /\ LastSeen.ncand > 0 /\ LastSeen.nkept = 0
    /\ rows # <<>> /\ RowsOfPage(1) = rows

\* C10: on every parsed review page the selectors are called in priority
\* order, a weaker one only after every stricter one matched nothing, the
\* candidates used are the result of the first selector that matched, alone,
\* and the page's records are made of them only.
C10_FirstMatchingSelectorAlone ==
    evals # <<>> =>
        /\ \A i \in 1..Len(evals) : evals[i].selector = i
        /\ \A i \in 1..(Len(evals) - 1) : evals[i].result = <<>>
        /\ evals[Len(evals)].result = <<>> => Len(evals) = 2
        /\ LastSeen.ncand = Len(evals[Len(evals)].result)
        /\ LastSeen.nkept <= LastSeen.ncand
        /\ \A r \in Range(RowsOfPage(page)) :
              \E c \in Range(evals[Len(evals)].result) :
                  r.text \in {GetText(c.nodes), Normalize(GetText(c.nodes))}

\* the first selector matched, the filter dropped all it found, the weaker
\* selector was not called and the crawl stopped
C10_Witness ==
    /\ Len(evals) = 1 /\ evals[1].result # <<>>
    /\ LastSeen.nkept = 0 /\ pc = "break"

\* pairs of records of the same page with the same normalized text
SamePageDuplicates ==
    {ij \in (1..Len(rows)) \X (1..Len(rows)) :
        /\ ij[1] < ij[2]
        /\ rows[ij[1]].page = rows[ij[2]].page
        /\ Normalize(rows[ij[1]].text) = Normalize(rows[ij[2]].text)}

\* pairs of records of different pages with the same normalized text
CrossPageDuplicates ==
    {ij \in (1..Len(rows)) \X (1..Len(rows)) :
        /\ rows[ij[1]].page < rows[ij[2]].page
        /\ Normalize(rows[ij[1]].text) = Normalize(rows[ij[2]].text)}

\* the candidate's text passes the length and boilerplate tests of the
\* running crawl
PassesTests(c) ==
    IF resource = "scrape_reviews"
    THEN ReviewLike(GetText(c.nodes))
    ELSE GetText(c.nodes) # <<>> /\ Len(GetText(c.nodes)) >= MinLenBlock

\* every candidate of the last parsed page that passes the tests has a record
\* of that page with its normalized text, whatever the earlier pages hold
LastPageFullyRecorded ==
    evals # <<>> =>
        \A c \in Range(Candidates(evals)) :
            PassesTests(c) =>
                \E r \in Range(RowsOfPage(page)) :
                    Normalize(r.text) = Normalize(GetText(c.nodes))

\* C11: in the corpus of either review crawl no two records of the same page
\* have the same normalized text, while a text that passes the tests on a
\* page has a record of that page even when an earlier page has it too.
C11_NoDuplicateWithinPage ==
    /\ SamePageDuplicates = {}
    /\ LastPageFullyRecorded

\* C11 (scrape_reviews alone): the per-page `seen` set keeps one record per
\* page and normalized text, and is empty again at every page.
C11_ScrapeReviewsNoDuplicateWithinPage ==
    resource = "scrape_reviews" =>
        /\ SamePageDuplicates = {}
        /\ LastPageFullyRecorded

\* scrape_reviews met the same normalized text twice on page 1 and again on
\* page 2 and holds it once per page
C11_ScrapeReviewsWitness ==
    /\ resource = "scrape_reviews" /\ page = 2 /\ Len(evals) = 1
    /\ LastSeen.ncand = 2 /\ LastSeen.nkept = 1
    /\ hist[1].ncand = 2 /\ hist[1].nkept = 1
    /\ CrossPageDuplicates # {}

\* C2: a fetch exception never ends the run: the crawl it happens in goes on
\* to write what it collected and the other crawls still run, so that a run
\* ends with its three files written.
C2_FetchExceptionEndsOneCrawlOnly ==
    /\ pc # "crashed"
    /\ pc = "done" => \A f \in DOMAIN files : files[f].written

(***************************************************************************)
(* Dates.  A timestamp is a number of seconds since 2023-01-01T00:00:00;   *)
(* a cell of the parsed `date` column is a timestamp or NaT.               *)
(***************************************************************************)
TargetYear == 2023
SecondsPerDay == 86400
DaysInYear == 365

DigitVal ==
    [c \in {"0", "1", "2", "3", "4", "5", "6", "7", "8", "9"} |->
        CASE c = "0" -> 0 [] c = "1" -> 1 [] c = "2" -> 2 [] c = "3" -> 3 [] c = "4" -> 4
          [] c = "5" -> 5 [] c = "6" -> 6 [] c = "7" -> 7 [] c = "8" -> 8 [] c = "9" -> 9]

DigitChar == <<"0", "1", "2", "3", "4", "5", "6", "7", "8", "9">>

IsLeap(y) == (y % 4 = 0 /\ y % 100 # 0) \/ y % 400 = 0

MonthDays(y) ==
    <<31, IF IsLeap(y) THEN 29 ELSE 28, 31, 30, 31, 30, 31, 31, 30, 31, 30, 31>>

RECURSIVE SumTo(_, _)
SumTo(s, n) == IF n = 0 THEN 0 ELSE s[n] + SumTo(s, n - 1)

\* days from 0001-01-01 to y-01-01 (proleptic Gregorian)
DaysBeforeYear(y) ==
    365 * (y - 1) + ((y - 1) \div 4) - ((y - 1) \div 100) + ((y - 1) \div 400)

\* the timestamp of y-m-d 00:00
Timestamp(y, m, d) ==
    (DaysBeforeYear(y) - DaysBeforeYear(TargetYear) + SumTo(MonthDays(y), m - 1) + (d - 1))
    * SecondsPerDay

NaT == [nat |-> TRUE, ts |-> 0]
At(ts) == [nat |-> FALSE, ts |-> ts]

\* pd.to_datetime(..., errors="coerce") on one cell, for the ISO form
\* YYYY-MM-DD; anything else met here (an empty cell, free text, an
\* impossible day) is coerced to NaT
ParseDate(s) ==
    IF /\ Len(s) = 10
       /\ s[5] = "-" /\ s[8] = "-"
       /\ \A i \in {1, 2, 3, 4, 6, 7, 9, 10} : s[i] \in DOMAIN DigitVal
    THEN LET y == 1000 * DigitVal[s[1]] + 100 * DigitVal[s[2]] + 10 * DigitVal[s[3]]
                  + DigitVal[s[4]]
             m == 10 * DigitVal[s[6]] + DigitVal[s[7]]
             d == 10 * DigitVal[s[9]] + DigitVal[s[10]]
         IN IF y >= 1 /\ m \in 1..12 /\ d >= 1 /\ d <= MonthDays(y)[m]
            THEN At(Timestamp(y, m, d))
            ELSE NaT
    ELSE NaT

\* the year of a timestamp is the target year
InTargetYear(ts) == ts >= 0 /\ ts < DaysInYear * SecondsPerDay

\* month (1..12) of a timestamp of the target year
RECURSIVE MonthOfDay(_, _)
MonthOfDay(k, m) ==
    IF k < MonthDays(TargetYear)[m] THEN m ELSE MonthOfDay(k - MonthDays(TargetYear)[m], m + 1)

\* date.isoformat() of date(2023, 1, 1) + timedelta(days=k), 0 <= k < 365
IsoFormat(k) ==
    LET m == MonthOfDay(k, 1)
        d == k - SumTo(MonthDays(TargetYear), m - 1) + 1
    IN <<"2", "0", "2", "3", "-">>
       \o <<DigitChar[(m \div 10) + 1], DigitChar[(m % 10) + 1]>>
       \o <<"-">>
       \o <<DigitChar[(d \div 10) + 1], DigitChar[(d % 10) + 1]>>

\* pd.date_range(start, end, periods=n) that stops one step short of `end`
DateRangeOpenEnd(n) ==
    [i \in 1..n |-> ((i - 1) * ((DaysInYear - 1) * SecondsPerDay)) \div n]

\* pd.date_range(start, end, periods=n) with the first day of 2024 as `end`
DateRangeToNewYear(n) ==
    [i \in 1..n |->
        IF n = 1 THEN 0 ELSE ((i - 1) * (DaysInYear * SecondsPerDay)) \div (n - 1)]

\* app.py, lines 145-147: pd.date_range("2023-01-01", "2023-12-31", periods=n):
\* n linearly spaced timestamps, both ends included
DateRange(n) ==
    [i \in 1..n |->
        IF n = 1 THEN 0 ELSE ((i - 1) * ((DaysInYear - 1) * SecondsPerDay)) \div (n - 1)]

\* a resolver that backfills record by record
EnsureEachDate(ds) ==
    [date |-> [i \in 1..Len(ds) |->
                  IF ParseDate(ds[i]).nat
                  THEN [nat |-> FALSE, ts |-> DateRange(Len(ds))[i], synthetic |-> TRUE,
                        text |-> <<>>]
                  ELSE [nat |-> FALSE, ts |-> ParseDate(ds[i]).ts, synthetic |-> FALSE,
                        text |-> <<>>]],
     used_placeholder |-> \E i \in 1..Len(ds) : ParseDate(ds[i]).nat]

\* app.py, lines 124-152: ensure_reviews_date_2023 on the `date` column
EnsureReviewsDate(ds) ==
    IF ds = <<>> THEN [date |-> <<>>, used_placeholder |-> FALSE]
    ELSE IF \A i \in 1..Len(ds) : ParseDate(ds[i]).nat
    THEN [date |-> [i \in 1..Len(ds) |->
                       [nat |-> FALSE, ts |-> DateRange(Len(ds))[i], synthetic |-> TRUE,
                        text |-> <<>>]],
          used_placeholder |-> TRUE]
    ELSE [date |-> [i \in 1..Len(ds) |->
                       [nat |-> ParseDate(ds[i]).nat, ts |-> ParseDate(ds[i]).ts,
                        synthetic |-> FALSE, text |-> <<>>]],
          used_placeholder |-> FALSE]

\* scrape_reviews.py, lines 89-93: random.seed(42), then random.randrange(365)
\* once per row: the first values of that sequence
RandDays42 == <<327, 57, 12, 140, 125, 114, 71, 52>>

\* scrape_reviews.py, lines 80-95: add_placeholder_dates_2023; the row gets the
\* ISO text of the day
AddPlaceholderDates(ds) ==
    [date |-> [i \in 1..Len(ds) |->
                  [nat |-> FALSE, ts |-> RandDays42[i] * SecondsPerDay, synthetic |-> TRUE,
                   text |-> IsoFormat(RandDays42[i])]],
     used_placeholder |-> TRUE]

(***************************************************************************)
(* Specification SpecResolve: the date resolution of a corpus, by app.py   *)
(* on the date column of reviews.csv and by main() of scrape_reviews.py on *)
(* the rows of scrape_reviews, which carry no date.                        *)
(***************************************************************************)
Date20231231 == <<"2", "0", "2", "3", "-", "1", "2", "-", "3", "1">>
Date20230230 == <<"2", "0", "2", "3", "-", "0", "2", "-", "3", "0">>

DateCells == {<<>>, Strip(NotADate), Date20230514, Date20221107, Date20231231, Date20230230}

InitResolve ==
    /\ pc = "resolve"
    /\ prog \in {"app", "scrape_reviews_main"}
    /\ dates \in SeqsUpTo(IF prog = "app" THEN DateCells ELSE {<<>>}, MaxRows)
    /\ resolved = [date |-> <<>>, used_placeholder |-> FALSE]
    /\ CrawlIdle /\ FilterIdle /\ SentIdle /\ AggIdle

\* app.py, line 252
AppResolve ==
    /\ pc = "resolve" /\ prog = "app"
    /\ resolved' = EnsureReviewsDate(dates)
    /\ pc' = "resolved"
    /\ UNCHANGED <<prog, crawlVars, filterVars, dates, sentVars, aggVars>>

\* scrape_reviews.py, lines 136-144: main() returns early on no rows
MainResolve ==
    /\ pc = "resolve" /\ prog = "scrape_reviews_main"
    /\ IF dates = <<>>
       THEN resolved' = resolved /\ pc' = "saved_empty"
       ELSE resolved' = AddPlaceholderDates(dates) /\ pc' = "resolved"
    /\ UNCHANGED <<prog, crawlVars, filterVars, dates, sentVars, aggVars>>

NextResolve == AppResolve \/ MainResolve

SpecResolve == InitResolve /\ [][NextResolve]_vars

Parseable(i) == ~ParseDate(dates[i]).nat

Cells == resolved.date

Backfilled == pc = "resolved" /\ Cells # <<>> /\ \A i \in 1..Len(Cells) : Cells[i].synthetic

\* C3: after the resolver has run, either every record carries a synthetic
\* timestamp, and then no record had a parseable one, or no record carries a
\* synthetic timestamp.
C3_AllOrNothing ==
    pc = "resolved" =>
        /\ Len(Cells) = Len(dates)
        /\ \/ /\ \A i \in 1..Len(Cells) : Cells[i].synthetic /\ ~Cells[i].nat
              /\ \A i \in 1..Len(dates) : ~Parseable(i)
              /\ resolved.used_placeholder \/ Cells = <<>>
           \/ /\ \A i \in 1..Len(Cells) : ~Cells[i].synthetic
              /\ ~resolved.used_placeholder

\* a corpus with a parseable and an unparseable date: nothing is backfilled
C3_Witness ==
    /\ pc = "resolved"
    /\ \E i, j \in 1..Len(dates) : Parseable(i) /\ ~Parseable(j)
    /\ \A i \in 1..Len(Cells) : ~Cells[i].synthetic

\* C4 (as stated): in backfill mode the synthetic dates are evenly spaced
\* over [Jan 1, Dec 31] in extraction order: non-decreasing along the corpus
\* and, for N >= 2, Jan 1 for the first record and Dec 31 for the last.
C4_BackfillEvenInOrder ==
    Backfilled =>
        /\ \A i \in 1..(Len(Cells) - 1) : Cells[i].ts <= Cells[i + 1].ts
        /\ Len(Cells) >= 2 =>
              /\ Cells[1].ts = Timestamp(2023, 1, 1)
              /\ Cells[Len(Cells)].ts = Timestamp(2023, 12, 31)

\* C4 (amended): the backfill of ensure_reviews_date_2023 (app.py) is as
\* stated, with gaps between neighbours equal to within a second; the backfill
\* of add_placeholder_dates_2023 gives the i-th record the i-th day of a fixed
\* seeded pseudo-random sequence instead (2023-11-24, 2023-02-27, ...), which
\* is neither ordered nor evenly spaced.
C4_BackfillEvenInApp ==
    Backfilled =>
        IF prog = "app"
        THEN /\ \A i \in 1..(Len(Cells) - 1) : Cells[i].ts <= Cells[i + 1].ts
             /\ \A i, j \in 1..(Len(Cells) - 1) :
                   (Cells[i + 1].ts - Cells[i].ts) - (Cells[j + 1].ts - Cells[j].ts) \in -1..1
             /\ Cells[1].ts = Timestamp(2023, 1, 1)
             /\ Len(Cells) >= 2 => Cells[Len(Cells)].ts = Timestamp(2023, 12, 31)
        ELSE /\ Cells[1].text = <<"2", "0", "2", "3", "-", "1", "1", "-", "2", "4">>
             /\ Len(Cells) >= 2 =>
                   Cells[2].text = <<"2", "0", "2", "3", "-", "0", "2", "-", "2", "7">>

\* app.py backfilled a corpus of at least three records
C4_Witness == Backfilled /\ prog = "app" /\ Len(Cells) >= 3

\* C9 (as stated): after the resolver has run, every record's resolved
\* timestamp falls within 2023.
C9_AllWithinTargetYear ==
    pc = "resolved" =>
        \A i \in 1..Len(Cells) : ~Cells[i].nat => InTargetYear(Cells[i].ts)

\* C9 (amended): every backfilled timestamp falls within 2023 (and the date
\* text main() writes parses back to it); a timestamp that was not backfilled
\* is the record's own parsed date, of whatever year, or NaT where it does not
\* parse.
C9_BackfillWithinTargetYear ==
    pc = "resolved" =>
        \A i \in 1..Len(Cells) :
            IF Cells[i].synthetic
            THEN /\ ~Cells[i].nat /\ InTargetYear(Cells[i].ts)
                 /\ Cells[i].text # <<>> => ParseDate(Cells[i].text) = At(Cells[i].ts)
            ELSE [nat |-> Cells[i].nat, ts |-> Cells[i].ts] = ParseDate(dates[i])

\* a backfilled corpus whose last record got Dec 31
C9_Witness ==
    /\ Backfilled /\ Len(Cells) >= 2
    /\ Cells[Len(Cells)].ts = Timestamp(2023, 12, 31)

(***************************************************************************)
(* Sentiment.  Confidences are in hundredths (0.75 is 75).                 *)
(***************************************************************************)
PosWords ==
    {<<"g", "r", "e", "a", "t">>,
     <<"a", "w", "e", "s", "o", "m", "e">>,
     <<"l", "o", "v", "e">>,
     <<"g", "o", "o", "d">>,
     <<"f", "a", "n", "t", "a", "s", "t", "i", "c">>,
     <<"r", "e", "c", "o", "m", "m", "e", "n", "d", "e", "d">>,
     <<"b", "e", "s", "t">>,
     <<"a", "m", "a", "z", "i", "n", "g">>}

NegWords ==
    {<<"b", "a", "d">>,
     <<"w", "o", "r", "s", "t">>,
     <<"h", "a", "t", "e">>,
     <<"p", "r", "o", "b", "l", "e", "m">>,
     <<"i", "s", "s", "u", "e", "s">>,
     <<"b", "r", "o", "k", "e", "n">>,
     <<"s", "l", "o", "w">>,
     <<"t", "e", "r", "r", "i", "b", "l", "e">>}

ConfidenceDiffer == 75
ConfidenceTied == 55

LowerToUpper ==
    [c \in {"e", "g", "n", "o", "p", "s"} |->
        CASE c = "e" -> "E" [] c = "g" -> "G" [] c = "n" -> "N"
          [] c = "o" -> "O" [] c = "p" -> "P" [] c = "s" -> "S"]

\* str.upper()
Upper(t) ==
    [i \in 1..Len(t) |-> IF t[i] \in DOMAIN LowerToUpper THEN LowerToUpper[t[i]] ELSE t[i]]

\* str.startswith
StartsWith(t, w) == Len(t) >= Len(w) /\ SubSeq(t, 1, Len(w)) = w

\* scrape_reviews.py, line 113, and app.py, line 171
SentimentOf(label) == IF StartsWith(Upper(label), <<"P", "O", "S">>) THEN "Positive" ELSE "Negative"

\* sum(w in t for w in words)
CountIn(t, words) == Cardinality({w \in words : Contains(t, w)})

\* a scorer that leaves out the lower() of line 124
LexiconCaseSensitive(text) ==
    LET p == CountIn(text, PosWords)
        n == CountIn(text, NegWords)
    IN [sentiment |-> IF p >= n THEN "Positive" ELSE "Negative",
        confidence |-> IF p = n THEN ConfidenceTied ELSE ConfidenceDiffer,
        by |-> "lexicon"]

\* scrape_reviews.py, lines 124-129: the keyword heuristic on one text
Lexicon(text) ==
    LET t == Lower(text)
        p == CountIn(t, PosWords)
        n == CountIn(t, NegWords)
    IN [sentiment |-> IF p >= n THEN "Positive" ELSE "Negative",
        confidence |-> IF p = n THEN ConfidenceTied ELSE ConfidenceDiffer,
        by |-> "lexicon"]

\* scrape_reviews.py, lines 111-114, and app.py, lines 171-172: one prediction
\* of the pipeline turned into a row
FromPrediction(p) ==
    [sentiment |-> SentimentOf(p.label), confidence |-> p.score, by |-> "primary"]

\* Where the primary strategy fails on a batch, if it does: at the import, at
\* the load of the model, at the inference, or at the first prediction whose
\* score float() cannot read.
FailureOf(outcome) ==
    IF outcome.failure # "none" THEN outcome.failure
    ELSE IF \E i \in 1..Len(outcome.preds) : outcome.preds[i].malformed THEN "prediction"
    ELSE "none"

\* scrape_reviews.py, lines 97-130: try_add_sentiment_transformers
TryAddSentiment(texts, outcome) ==
    IF FailureOf(outcome) = "none"
    THEN [rows |-> [i \in 1..Len(texts) |-> FromPrediction(outcome.preds[i])],
          failure |-> "none"]
    ELSE [rows |-> [i \in 1..Len(texts) |-> Lexicon(texts[i])],
          failure |-> FailureOf(outcome)]

(***************************************************************************)
(* Specification SpecClassify: the sentiment step on a batch of texts, by  *)
(* try_add_sentiment_transformers (scrape_reviews.py) and by run_sentiment *)
(* (app.py).                                                               *)
(***************************************************************************)
ExampleText == 
    <<"g", "r", "e", "a", "t", " ", "a", "n", "d", " ", "a", "m", "a", "z", "i", "n", "g", ",", " ", "b", "u", "t", " ", "s", "l", "o", "w">>

Vocabulary == {<<"g", "r", "e", "a", "t">>, <<"B", "a", "d">>, <<"b", "a", "d", "g", "e">>, <<"o", "k">>}

WordTexts == {Join(ws, <<" ">>) : ws \in SeqsUpTo(Vocabulary, MaxWords)}

BatchTexts == {ExampleText, <<"B", "a", "d", " ", "b", "u", "t", " ", "g", "o", "o", "d">>, <<"i", "t", " ", "i", "s", " ", "o", "k">>}

Predictions ==
    {[label |-> <<"P", "O", "S", "I", "T", "I", "V", "E">>, score |-> 90, malformed |-> FALSE],
     [label |-> <<"N", "E", "G", "A", "T", "I", "V", "E">>, score |-> 60, malformed |-> FALSE],
     [label |-> <<"p", "o", "s", "i", "t", "i", "v", "e">>, score |-> 60, malformed |-> FALSE],
     [label |-> <<"N", "E", "G", "A", "T", "I", "V", "E">>, score |-> 0, malformed |-> TRUE]}

\* what the primary strategy does on a batch of n texts
Outcomes(n) ==
    {[failure |-> f, preds |-> <<>>] : f \in {"import", "load", "inference"}}
    \cup {[failure |-> "none", preds |-> ps] : ps \in [1..n -> Predictions]}

InitClassify ==
    /\ pc = "classify"
    /\ prog \in {"scrape_reviews_main", "app"}
    /\ batch \in (SeqsUpTo(BatchTexts, MaxBatch) \ {<<>>}) \cup {<<t>> : t \in WordTexts}
    /\ labelled = [rows |-> <<>>, failure |-> "none"]
    /\ CrawlIdle /\ FilterIdle /\ DateIdle /\ AggIdle

\* scrape_reviews.py, line 145
MainClassify ==
    /\ pc = "classify" /\ prog = "scrape_reviews_main"
    /\ \E outcome \in Outcomes(Len(batch)) :
          labelled' = TryAddSentiment(batch, outcome)
    /\ pc' = "classified"
    /\ UNCHANGED <<prog, crawlVars, filterVars, dateVars, batch, aggVars>>

\* app.py, lines 165-173 and 292: run_sentiment has no try: an exception of
\* the model load, of the inference or of a prediction leaves it
AppClassify ==
    /\ pc = "classify" /\ prog = "app"
    /\ \E outcome \in Outcomes(Len(batch)) :
          IF FailureOf(outcome) = "none"
          THEN /\ labelled' = [rows |-> [i \in 1..Len(batch) |-> FromPrediction(outcome.preds[i])],
                               failure |-> "none"]
               /\ pc' = "classified"
          ELSE /\ labelled' = [rows |-> <<>>, failure |-> FailureOf(outcome)]
               /\ pc' = "raised"
    /\ UNCHANGED <<prog, crawlVars, filterVars, dateVars, batch, aggVars>>

NextClassify == MainClassify \/ AppClassify

SpecClassify == InitClassify /\ [][NextClassify]_vars

Labelled == labelled.rows

\* C5: when the primary classifier fails, the whole batch is labelled by the
\* lexicon, no output mixes the two strategies, and the failure does not reach
\* the caller.
C5_FailureFallsBackForWholeBatch ==
    /\ pc # "raised"
    /\ pc = "classified" =>
          /\ Len(Labelled) = Len(batch)
          /\ \A i, j \in 1..Len(Labelled) : Labelled[i].by = Labelled[j].by
          /\ labelled.failure # "none" => \A i \in 1..Len(Labelled) : Labelled[i].by = "lexicon"

\* the number of places of t where a word of `words` starts
RECURSIVE Occurrences(_, _, _)
Occurrences(t, words, i) ==
    IF i > Len(t) THEN 0
    ELSE Cardinality({w \in words : StartsWith(SubSeq(t, i, Len(t)), w)})
         + Occurrences(t, words, i + 1)

ByOccurrences(text) ==
    LET p == Occurrences(Lower(text), PosWords, 1)
        n == Occurrences(Lower(text), NegWords, 1)
    IN [sentiment |-> IF p >= n THEN "Positive" ELSE "Negative",
        confidence |-> IF p = n THEN ConfidenceTied ELSE ConfidenceDiffer]

\* the words of `words` found inside some whitespace-delimited token of t
WordsPresent(t, words) == {w \in words : \E k \in Range(Split(t)) : Contains(k, w)}

ByWordsPresent(text) ==
    LET p == Cardinality(WordsPresent(Lower(text), PosWords))
        n == Cardinality(WordsPresent(Lower(text), NegWords))
    IN [sentiment |-> IF p >= n THEN "Positive" ELSE "Negative",
        confidence |-> IF p = n THEN ConfidenceTied ELSE ConfidenceDiffer]

LexiconRows == {i \in 1..Len(Labelled) : pc = "classified" /\ Labelled[i].by = "lexicon"}

Verdict(r) == [sentiment |-> r.sentiment, confidence |-> r.confidence]

\* C6 (as stated): the lexicon classifier counts the occurrences of
\* positive-set and of negative-set words in the lower-cased text (p, n) and
\* returns Positive iff p >= n, with confidence 0.75 when p # n, 0.55 when
\* p = n.
C6_CountsOccurrences ==
    \A i \in LexiconRows : Verdict(Labelled[i]) = ByOccurrences(batch[i])

\* C6 (amended): p and n are the numbers of positive-set and of negative-set
\* words that occur in the lower-cased text at all, each word counted once
\* and also where it is part of a longer word; Positive iff p >= n, confidence
\* 0.75 when p # n, 0.55 when p = n; "great and amazing, but slow" gives
\* Positive, 0.75.
C6_CountsWordsPresent ==
    \A i \in LexiconRows :
        /\ Verdict(Labelled[i]) = ByWordsPresent(batch[i])
        /\ batch[i] = ExampleText =>
              Verdict(Labelled[i]) = [sentiment |-> "Positive", confidence |-> 75]

\* the lexicon labelled a text that repeats a negative word next to one
\* positive word: a tie
C6_Witness ==
    \E i \in LexiconRows :
        /\ Occurrences(Lower(batch[i]), NegWords, 1) > Occurrences(Lower(batch[i]), PosWords, 1)
        /\ Labelled[i].sentiment = "Positive" /\ Labelled[i].confidence = ConfidenceTied

(***************************************************************************)
(* app.py, Reviews section: month filter and aggregation.                  *)
(***************************************************************************)
DaysIn(y) == IF IsLeap(y) THEN 366 ELSE 365

\* the year of day number k counted from Jan 1 of year y
RECURSIVE YearOfDay(_, _)
YearOfDay(k, y) ==
    IF k < 0 THEN YearOfDay(k + DaysIn(y - 1), y - 1)
    ELSE IF k >= DaysIn(y) THEN YearOfDay(k - DaysIn(y), y + 1)
    ELSE [year |-> y, day |-> k]

RECURSIVE MonthIn(_, _, _)
MonthIn(k, y, m) ==
    IF k < MonthDays(y)[m] THEN m ELSE MonthIn(k - MonthDays(y)[m], y, m + 1)

Digits(n, width) ==
    [i \in 1..width |-> DigitChar[((n \div (10 ^ (width - i))) % 10) + 1]]

\* app.py, line 274: dt.to_period("M").astype(str)
MonthString(cell) ==
    IF cell.nat THEN <<"N", "a", "T">>
    ELSE LET yd == YearOfDay(cell.ts \div SecondsPerDay, TargetYear)
         IN Digits(yd.year, 4) \o <<"-">> \o Digits(MonthIn(yd.day, yd.year, 1), 2)

\* app.py, line 267: rows whose text is not blank, with the resolved date
KeptRows(df) ==
    LET cells == EnsureReviewsDate([i \in 1..Len(df) |-> df[i].date]).date
        dated == [i \in 1..Len(df) |-> [month |-> MonthString(cells[i]),
                                        text |-> df[i].text, pred |-> df[i].pred]]
    IN SelectSeq(dated, LAMBDA r : Strip(r.text) # <<>>)

\* app.py, line 275: the months offered by the slider
Months(df) ==
    {r.month : r \in {x \in Range(KeptRows(df)) : StartsWith(x.month, <<"2", "0", "2", "3", "-">>)}}

\* the rows the metrics are computed on, without the filter of line 283
AllRows(df, m) == KeptRows(df)

\* app.py, line 283: month_df
MonthRows(df, m) == SelectSeq(KeptRows(df), LAMBDA r : r.month = m)

RECURSIVE SumConfidence(_)
SumConfidence(rs) ==
    IF rs = <<>> THEN 0 ELSE FromPrediction(Head(rs).pred).confidence + SumConfidence(Tail(rs))

\* app.py, lines 284-298: the count, pos_count, neg_count and avg_conf of a
\* month; avg_conf is conf_sum / count
Metrics(df, m) ==
    LET rs == MonthRows(df, m)
    IN [count |-> Len(rs),
        pos |-> Len(SelectSeq(rs, LAMBDA r : FromPrediction(r.pred).sentiment = "Positive")),
        neg |-> Len(SelectSeq(rs, LAMBDA r : FromPrediction(r.pred).sentiment = "Negative")),
        conf_sum |-> SumConfidence(rs)]

(***************************************************************************)
(* Specification SpecAggregate: one run of the Reviews section of app.py   *)
(* on a reviews.csv, for any month the slider offers.                      *)
(***************************************************************************)
Positive90 == [label |-> <<"P", "O", "S", "I", "T", "I", "V", "E">>, score |-> 90, malformed |-> FALSE]
Negative60 == [label |-> <<"N", "E", "G", "A", "T", "I", "V", "E">>, score |-> 60, malformed |-> FALSE]
Date20230601 == <<"2", "0", "2", "3", "-", "0", "6", "-", "0", "1">>

CsvRows ==
    {[date |-> d, text |-> LongA, pred |-> p] :
        d \in {Date20230514, Date20230601, Date20221107, <<>>},
        p \in {Positive90, Negative60}}
    \cup {[date |-> Date20230514, text |-> <<" ">>, pred |-> Positive90]}

\* 6 Positive at 0.9 and 4 Negative at 0.6, all of May 2023
ExampleCorpus ==
    [i \in 1..10 |-> [date |-> Date20230514, text |-> LongA,
                      pred |-> IF i <= 6 THEN Positive90 ELSE Negative60]]

InitAggregate ==
    /\ pc = "reviews"
    /\ prog = "app"
    /\ reviews_df \in SeqsUpTo(CsvRows, MaxRows) \cup {ExampleCorpus}
    /\ selected = <<>>
    /\ metrics = [count |-> 0, pos |-> 0, neg |-> 0, conf_sum |-> 0]
    /\ CrawlIdle /\ FilterIdle /\ DateIdle /\ SentIdle

\* app.py, lines 244-304: the section stops on an empty file, on no text, on
\* no month of 2023; else it computes the metrics of the selected month,
\* unless run_sentiment raises
ReviewsSection ==
    /\ pc = "reviews"
    /\ IF Months(reviews_df) = {}
       THEN pc' = "stopped" /\ UNCHANGED <<selected, metrics>>
       ELSE \E m \in Months(reviews_df), primary_fails \in BOOLEAN :
               /\ selected' = m
               /\ IF primary_fails
                  THEN pc' = "raised" /\ metrics' = metrics
                  ELSE pc' = "shown" /\ metrics' = Metrics(reviews_df, m)
    /\ UNCHANGED <<prog, crawlVars, filterVars, dateVars, sentVars, reviews_df>>

NextAggregate == ReviewsSection

SpecAggregate == InitAggregate /\ [][NextAggregate]_vars

\* the rows of the selected month, found row by row from the file
InMonth ==
    {i \in 1..Len(reviews_df) :
        /\ Strip(reviews_df[i].text) # <<>>
        /\ LET c == IF \A j \in 1..Len(reviews_df) : ParseDate(reviews_df[j].date).nat
                    THEN At(DateRange(Len(reviews_df))[i])
                    ELSE ParseDate(reviews_df[i].date)
           IN MonthString(c) = selected}

WithLabel(l) == {i \in InMonth : SentimentOf(reviews_df[i].pred.label) = l}

RECURSIVE SumScores(_)
SumScores(S) ==
    IF S = {} THEN 0
    ELSE LET i == CHOOSE x \in S : TRUE IN reviews_df[i].pred.score + SumScores(S \ {i})

\* C8 (as stated): the aggregation of a month yields the record count, the
\* Positive count, the Negative count, and as mean confidences the mean over
\* the Positive records and the mean over the Negative records.
C8_MeanPerLabel ==
    pc = "shown" =>
        /\ metrics.count = Cardinality(InMonth)
        /\ metrics.pos = Cardinality(WithLabel("Positive"))
        /\ metrics.neg = Cardinality(WithLabel("Negative"))
        /\ metrics.pos > 0 =>
              metrics.conf_sum * metrics.pos = SumScores(WithLabel("Positive")) * metrics.count
        /\ metrics.neg > 0 =>
              metrics.conf_sum * metrics.neg = SumScores(WithLabel("Negative")) * metrics.count

\* C8 (amended): the aggregation of a month yields the record count, the
\* Positive count, the Negative count and one mean confidence, taken over all
\* records of the month; 6 Positive at 0.9 and 4 Negative at 0.6 in 2023-05
\* give count 10, Positive 6, Negative 4 and mean 0.78.
C8_MeanOverMonth ==
    pc = "shown" =>
        /\ metrics.count = Cardinality(InMonth) /\ metrics.count > 0
        /\ metrics.pos = Cardinality(WithLabel("Positive"))
        /\ metrics.neg = Cardinality(WithLabel("Negative"))
        /\ metrics.pos + metrics.neg = metrics.count
        /\ metrics.conf_sum = SumScores(InMonth)
        /\ reviews_df = ExampleCorpus =>
              /\ selected = <<"2", "0", "2", "3", "-", "0", "5">>
              /\ metrics = [count |-> 10, pos |-> 6, neg |-> 4, conf_sum |-> 780]

\* a month with both labels, in a file that also has rows of another month
C8_Witness ==
    /\ pc = "shown" /\ metrics.pos > 0 /\ metrics.neg > 0
    /\ metrics.count < Len(reviews_df)

====
